---- MODULE Spec2Model ----
(***************************************************************************)
(* NgAutoPositionElementDirective (ng-auto-position): the placement pass   *)
(* updatePosition, the wiring made by ngAfterViewInit (ResizeObserver,     *)
(* merged and debounced scroll/resize stream, reveal microtask) and the    *)
(* teardown through DestroyRef.                                            *)
(*                                                                         *)
(* Lengths are CSS pixels (integers).  The inner max-height is kept in     *)
(* tenths of a pixel so that viewportH * 0.9 stays an integer.             *)
(***************************************************************************)
EXTENDS Integers, Sequences, FiniteSets, TLC

\* ---------------------------------------------------------------- bounds
\* Pixel grid of the layouts that are explored.
Step == 10
\* Grid steps an anchor edge may lie before the viewport origin.
MaxOut == 1
\* Largest anchor coordinate, in grid steps.
MaxIn == 4
\* Largest anchor coordinate met while scrolling, in grid steps.
MaxScroll == 2
\* Largest natural panel size, in grid steps.
MaxPanel == 3
\* Viewport size in pixels (window.innerWidth / window.innerHeight).
ViewportW == 30
ViewportH == 30
\* Largest debounceMs explored (time advances in units of one ms).
MaxDebounce == 2
\* Successful passes explored in one behaviour.
MaxPasses == 3

\* ------------------------------------------------------ program constants
DefaultOffset == 5
DefaultViewportPadding == 4
InnerSafetyMargin == 10
\* viewportH * 0.9, as ViewportCapTenths tenths
ViewportCapTenths == 9

Min(a, b) == IF a < b THEN a ELSE b
Max(a, b) == IF a > b THEN a ELSE b

\* An optional value is the empty set or a singleton.
None == {}
Some(v) == {v}
The(s) == CHOOSE v \in s : TRUE

Sides == {"top", "bottom", "left", "right"}
Placements == {"auto"} \cup Sides

VARIABLES
  cfg,            \* the directive's inputs
  layout,         \* what getBoundingClientRect / window.inner* currently return
  idInDom,        \* document.getElementById(referenceElementId) finds an element
  phase,          \* "created" | "attached" | "destroyed"
  observed,       \* elements the ResizeObserver observes
  roPending,      \* the ResizeObserver has a notification to deliver
  sources,        \* event sources the merged stream is subscribed to
  timer,          \* debounceTime: None, or Some(ms left until it emits)
  microtasks,     \* queued reveal microtasks
  position,       \* overlay.style.position
  style,          \* overlay.style: top, left, width (optional values)
  innerMaxHeight, \* inner.style.maxHeight in tenths of a pixel (optional)
  lastPlacement,  \* this.lastPlacement ("null" or a side)
  visibility,     \* this.visibility
  emitted,        \* values emitted by placementChange, oldest first
  passes,         \* successful passes so far
  pass,           \* what the latest successful pass measured and decided
  prevSide,       \* side of the successful pass before the latest ("null" if none)
  dropped,        \* a pending debounced recomputation was cancelled by the destroy
  burst           \* the latest burst of events on the merged stream: it has
                  \* events, some of them merged into a running timer; quiet ms
                  \* since the last of them; passes the stream has run since

vars == <<cfg, layout, idInDom, phase, observed, roPending, sources, timer,
          microtasks, position, style, innerMaxHeight, lastPlacement, visibility,
          emitted, passes, pass, prevSide, dropped, burst>>

\* ----------------------------------------------------------------- layouts
Coords == {Step * i : i \in (0 - MaxOut)..MaxIn}
AnchorSizes == {Step, 2 * Step}
PanelSizes == {Step * i : i \in 1..MaxPanel}
PanelWidths == {Step, MaxPanel * Step}

Layouts ==
  [refTop : Coords, refLeft : Coords, refW : AnchorSizes, refH : AnchorSizes,
   natW : PanelWidths, natH : PanelSizes, vw : {ViewportW}, vh : {ViewportH}]

\* reference.getBoundingClientRect()
RefRect(l) ==
  [top |-> l.refTop, left |-> l.refLeft, width |-> l.refW, height |-> l.refH,
   bottom |-> l.refTop + l.refH, right |-> l.refLeft + l.refW]

\* overlay.getBoundingClientRect(): an explicit style.width fixes the width,
\* and a panel made narrower than its natural width wraps its content and
\* grows by one grid step.
OverlayRect(l, width) ==
  [width |-> IF width = None THEN l.natW ELSE The(width),
   height |-> IF width # None /\ The(width) < l.natW THEN l.natH + Step
              ELSE l.natH]

\* ------------------------------------------------------- getReferenceElement
\* "direct" is the element handed in as referenceElement, "byId" the element
\* document.getElementById returns, "parent" the overlay's parentElement.
\* (variant: an id that matches nothing falls back to the parent element)
GetReferenceElementParentFallback(c, found) ==
  IF c.referenceElement # "null" THEN Some("direct")
  ELSE IF c.referenceElementId # "null" /\ found THEN Some("byId")
  ELSE Some("parent")

\* (variant: the id lookup comes before the direct handle)
GetReferenceElementIdFirst(c, found) ==
  IF c.referenceElementId # "null"
  THEN (IF found THEN Some("byId") ELSE None)
  ELSE IF c.referenceElement # "null" THEN Some("direct")
  ELSE Some("parent")

GetReferenceElement(c, found) ==
  IF c.referenceElement # "null" THEN Some("direct")
  ELSE IF c.referenceElementId # "null"
       THEN (IF found THEN Some("byId") ELSE None)
       ELSE Some("parent")

\* getScrollableParents(reference): the anchor sits in one scrollable container
GetScrollableParents(reference) == {"scrollParent"}

\* ------------------------------------------------------ isReferenceFullyOut
\* (variant: an anchor that only touches a viewport edge counts as visible)
IsReferenceFullyOutStrict(refRect, vw, vh) ==
  \/ refRect.bottom < 0
  \/ refRect.top > vh
  \/ refRect.right < 0
  \/ refRect.left > vw

IsReferenceFullyOut(refRect, vw, vh) ==
  \/ refRect.bottom <= 0
  \/ refRect.top >= vh
  \/ refRect.right <= 0
  \/ refRect.left >= vw

\* ----------------------------------------------------------- updatePosition
\* (variant: a panel that exactly fills the room below opens on top)
AutoOpenOnTopAtEqual(overlayH, spaceAbove, spaceBelow) ==
  overlayH >= spaceBelow /\ spaceAbove >= overlayH

\* (variant: a panel that does not fit below opens on top whatever the room above)
AutoOpenOnTopNoRoomCheck(overlayH, spaceAbove, spaceBelow) ==
  overlayH > spaceBelow

AutoOpenOnTop(overlayH, spaceAbove, spaceBelow) ==
  overlayH > spaceBelow /\ spaceAbove >= overlayH

\* (variant: the preferred placement does not override the heuristic)
OpenOnTopNoOverride(preferredPlacement, auto) == auto

OpenOnTop(preferredPlacement, auto) ==
  IF preferredPlacement = "top" THEN TRUE
  ELSE IF preferredPlacement = "bottom" THEN FALSE
  ELSE auto

\* (variant: left and right are not honoured)
FinalPlacementVertical(preferredPlacement, openOnTop) ==
  IF openOnTop THEN "top" ELSE "bottom"

FinalPlacement(preferredPlacement, openOnTop) ==
  IF preferredPlacement \in {"left", "right"} THEN preferredPlacement
  ELSE IF openOnTop THEN "top" ELSE "bottom"

\* (variant: the panel height is not subtracted when opening on top)
RawTopNoHeight(preferredPlacement, openOnTop, refRect, overlayRect, offset) ==
  IF preferredPlacement \in {"left", "right"} THEN refRect.top
  ELSE IF openOnTop THEN refRect.top - offset
  ELSE refRect.bottom + offset

RawTop(preferredPlacement, openOnTop, refRect, overlayRect, offset) ==
  IF preferredPlacement \in {"left", "right"} THEN refRect.top
  ELSE IF openOnTop THEN refRect.top - overlayRect.height - offset
  ELSE refRect.bottom + offset

RawLeft(preferredPlacement, refRect, overlayRect, offset) ==
  IF preferredPlacement = "left" THEN refRect.left - overlayRect.width - offset
  ELSE IF preferredPlacement = "right" THEN refRect.right + offset
  ELSE refRect.left

\* (variant: a negative padding is used as it is)
PaddingRaw(viewportPadding) == viewportPadding

\* Math.max(0, this.viewportPadding())
Padding(viewportPadding) == Max(0, viewportPadding)

\* (variant: only the far edge is clamped)
ClampFarEdgeOnly(v, viewportSize, overlaySize, padding) ==
  Min(v, viewportSize - overlaySize - padding)

\* (variant: the near edge is clamped first, so the far edge wins)
ClampNearEdgeFirst(v, viewportSize, overlaySize, padding) ==
  Min(Max(v, padding), viewportSize - overlaySize - padding)

\* Math.min against the far edge first, then Math.max against the near edge
Clamp(v, viewportSize, overlaySize, padding) ==
  Max(Min(v, viewportSize - overlaySize - padding), padding)

MaxSpace(finalPlacement, openOnTop, spaceAbove, spaceBelow, vh, padding) ==
  IF finalPlacement \in {"left", "right"} THEN vh - padding * 2
  ELSE IF openOnTop THEN spaceAbove ELSE spaceBelow

\* Math.min(maxSpace - 10, viewportH * 0.9), in tenths of a pixel
InnerMaxHeight(maxSpace, vh) ==
  Min(10 * (maxSpace - InnerSafetyMargin), ViewportCapTenths * vh)

\* (variant: the style keeps whatever number it is given)
SetMaxHeightAnyValue(old, tenths) == Some(tenths)

\* inner.style.maxHeight = `${...}px`: the style parses what it is given, and a
\* negative length is not a max-height, so the assignment leaves the old value.
SetMaxHeight(old, tenths) == IF tenths < 0 THEN old ELSE Some(tenths)

\* (variants: emit on every pass; emit on the first pass only)
PlacementChangedAlways(last, finalPlacement) == TRUE
PlacementChangedFirstOnly(last, finalPlacement) == last = "null"

\* this.lastPlacement !== finalPlacement
PlacementChanged(last, finalPlacement) == last # finalPlacement

\* (variant: the overlay is measured before the width is matched)
WidthAtMeasureStale(c, refRect, width) == width

\* The width overlay.style.width holds when the overlay is measured.
WidthAtMeasure(c, refRect, width) ==
  IF c.matchWidth THEN Some(refRect.width) ELSE width

\* Everything one pass measures and decides, given the inputs c, the layout l
\* and the overlay's current style.width.
Placement(c, l, width) ==
  LET refRect == RefRect(l)
      overlayRect == OverlayRect(l, WidthAtMeasure(c, refRect, width))
      spaceAbove == refRect.top
      spaceBelow == l.vh - refRect.bottom
      openOnTop == OpenOnTop(c.placement,
                     AutoOpenOnTop(overlayRect.height, spaceAbove, spaceBelow))
      finalPlacement == FinalPlacement(c.placement, openOnTop)
      rawTop == RawTop(c.placement, openOnTop, refRect, overlayRect, c.offset)
      rawLeft == RawLeft(c.placement, refRect, overlayRect, c.offset)
      fullyOut == IsReferenceFullyOut(refRect, l.vw, l.vh)
      padding == Padding(c.viewportPadding)
  IN [refRect |-> refRect, overlayRect |-> overlayRect, vw |-> l.vw, vh |-> l.vh,
      spaceAbove |-> spaceAbove, spaceBelow |-> spaceBelow,
      openOnTop |-> openOnTop, side |-> finalPlacement,
      rawTop |-> rawTop, rawLeft |-> rawLeft, clamped |-> ~fullyOut,
      top |-> IF fullyOut THEN rawTop
              ELSE Clamp(rawTop, l.vh, overlayRect.height, padding),
      left |-> IF fullyOut THEN rawLeft
               ELSE Clamp(rawLeft, l.vw, overlayRect.width, padding),
      maxSpace |-> MaxSpace(finalPlacement, openOnTop, spaceAbove, spaceBelow,
                            l.vh, padding)]

\* The latest pass before any pass has run.
NoPass == [side |-> "null"]

\* updatePosition(): a pass that finds no reference returns at once.
UpdatePosition ==
  LET reference == GetReferenceElement(cfg, idInDom)
      p == Placement(cfg, layout, style.width)
      changed == PlacementChanged(lastPlacement, p.side)
  IN IF reference = None
     THEN UNCHANGED <<style, innerMaxHeight, lastPlacement, emitted, microtasks,
                      passes, pass, prevSide>>
     ELSE /\ style' = [top |-> Some(p.top), left |-> Some(p.left),
                       width |-> WidthAtMeasure(cfg, p.refRect, style.width)]
          /\ lastPlacement' = IF changed THEN p.side ELSE lastPlacement
          /\ emitted' = IF changed THEN Append(emitted, p.side) ELSE emitted
          /\ innerMaxHeight' =
               IF cfg.scrollableSelector
               THEN SetMaxHeight(innerMaxHeight, InnerMaxHeight(p.maxSpace, p.vh))
               ELSE innerMaxHeight
          /\ microtasks' = microtasks + 1
          /\ passes' = passes + 1
          /\ pass' = p @@ [reference |-> The(reference)]
          /\ prevSide' = pass.side

\* ------------------------------------------------------------ configurations
DefaultCfg ==
  [referenceElement |-> "null", referenceElementId |-> "null", debounceMs |-> 0,
   offset |-> DefaultOffset, matchWidth |-> FALSE, placement |-> "auto",
   viewportPadding |-> DefaultViewportPadding, trackScrollParents |-> TRUE,
   scrollableSelector |-> FALSE, enableAutoReposition |-> TRUE]

\* Inputs that decide the geometry of a pass.
GeometryCfgs ==
  {[DefaultCfg EXCEPT !.placement = pl, !.offset = off, !.viewportPadding = vp,
                      !.matchWidth = mw, !.scrollableSelector = sel] :
     pl \in Placements, off \in {0, DefaultOffset},
     vp \in {0 - DefaultViewportPadding, 0, DefaultViewportPadding},
     mw \in BOOLEAN, sel \in BOOLEAN}

\* Inputs that decide when a pass runs.
LifecycleCfgs ==
  {[DefaultCfg EXCEPT !.placement = pl, !.debounceMs = ms,
                      !.enableAutoReposition = auto, !.trackScrollParents = tr,
                      !.referenceElementId = id] :
     pl \in {"auto", "right"}, ms \in {0, MaxDebounce}, auto \in BOOLEAN,
     tr \in BOOLEAN, id \in {"null", "anchor"}}

\* Inputs that decide which element is the anchor.
ResolverCfgs ==
  {[DefaultCfg EXCEPT !.referenceElement = el, !.referenceElementId = id,
                      !.debounceMs = ms] :
     el \in {"null", "direct"}, id \in {"null", "anchor"}, ms \in {0, MaxDebounce}}

\* Layouts met while the page scrolls: the anchor moves along the y axis and
\* the panel's content grows or shrinks.
ScrollTops == {Step * i : i \in (0 - MaxOut)..MaxScroll}

ScrollLayouts ==
  [refTop : ScrollTops, refLeft : {0}, refW : {Step}, refH : {Step},
   natW : {Step}, natH : {Step, 2 * Step}, vw : {ViewportW}, vh : {ViewportH}]

\* No event has reached the merged stream yet.
NoBurst == [events |-> FALSE, merged |-> FALSE, quiet |-> 0, passes |-> 0]

\* ------------------------------------------------------------------- states
\* (variant: the panel is shown from the start)
InitialVisibilityShown == "visible"

\* visibility = 'hidden'
InitialVisibility == "hidden"

\* (variant: the directive starts out remembering the bottom side)
InitialLastPlacementBottom == "bottom"

\* lastPlacement = null
InitialLastPlacement == "null"

InitDirective ==
  /\ phase = "created"
  /\ observed = {}
  /\ roPending = FALSE
  /\ sources = {}
  /\ timer = None
  /\ microtasks = 0
  /\ position = "static"
  /\ style = [top |-> None, left |-> None, width |-> None]
  /\ innerMaxHeight = None
  /\ lastPlacement = InitialLastPlacement
  /\ visibility = InitialVisibility
  /\ emitted = << >>
  /\ passes = 0
  /\ pass = NoPass
  /\ prevSide = "null"
  /\ dropped = FALSE
  /\ burst = NoBurst

Init ==
  /\ cfg \in LifecycleCfgs
  /\ layout \in ScrollLayouts
  /\ idInDom \in (IF cfg.referenceElementId = "null" THEN {FALSE} ELSE BOOLEAN)
  /\ InitDirective

InitResolver ==
  /\ cfg \in ResolverCfgs
  /\ layout \in ScrollLayouts
  /\ idInDom \in (IF cfg.referenceElementId = "null" THEN {FALSE} ELSE BOOLEAN)
  /\ InitDirective

InitGeometry ==
  /\ cfg \in GeometryCfgs
  /\ layout \in Layouts
  /\ idInDom = TRUE
  /\ InitDirective

\* ------------------------------------------------------------------ actions
\* merge(fromEvent(window, 'scroll'), fromEvent(window, 'resize'), ...scrollStreams)
\* (variant: the listeners are attached whatever the inputs say)
SubscriptionsUnconditional(c, reference) ==
  {"windowScroll", "windowResize"}
    \cup (IF reference # None THEN GetScrollableParents(reference) ELSE {})

Subscriptions(c, reference) ==
  IF c.enableAutoReposition
  THEN {"windowScroll", "windowResize"}
         \cup (IF reference # None /\ c.trackScrollParents
               THEN GetScrollableParents(reference) ELSE {})
  ELSE {}

\* ngAfterViewInit(): observe, subscribe, first pass, register the disconnect.
\* ro.observe queues a first notification for each observed element.
NgAfterViewInit ==
  /\ phase = "created"
  /\ phase' = "attached"
  /\ position' = "fixed"
  /\ observed' = {"overlay"} \cup GetReferenceElement(cfg, idInDom)
  /\ roPending' = TRUE
  /\ sources' = Subscriptions(cfg, GetReferenceElement(cfg, idInDom))
  /\ UpdatePosition
  /\ UNCHANGED <<cfg, layout, idInDom, timer, visibility, dropped, burst>>

\* new ResizeObserver(() => this.updatePosition()): a notification is delivered
\* only while the observer is connected.
ResizeObserverCallback ==
  /\ roPending
  /\ observed # {}
  /\ microtasks = 0
  /\ passes < MaxPasses
  /\ roPending' = FALSE
  /\ UpdatePosition
  /\ UNCHANGED <<cfg, layout, idInDom, phase, observed, sources, timer, position,
                 visibility, dropped, burst>>

\* debounceTime(debounceMs): every event of a subscribed source restarts the
\* single timer of the merged stream.
\* (variant: an event that finds the timer running does not restart it)
DebounceNoRestart(c, t) == IF t = None THEN Some(c.debounceMs) ELSE t

Debounce(c, t) == Some(c.debounceMs)

\* A scroll or resize event; the page has moved the anchor by at most one step.
DomEvent(src) ==
  /\ phase # "created"
  /\ microtasks = 0
  /\ \E y \in ScrollTops \cap {layout.refTop - Step, layout.refTop, layout.refTop + Step} :
       layout' = [layout EXCEPT !.refTop = y]
  /\ timer' = IF src \in sources THEN Debounce(cfg, timer) ELSE timer
  /\ burst' = IF src \in sources
              THEN [events |-> TRUE, merged |-> timer # None,
                    quiet |-> 0, passes |-> 0]
              ELSE burst
  /\ UNCHANGED <<cfg, idInDom, phase, observed, roPending, sources, microtasks,
                 position, style, innerMaxHeight, lastPlacement, visibility,
                 emitted, passes, pass, prevSide, dropped>>

\* One millisecond passes while the debounce timer runs.
Tick ==
  /\ timer # None
  /\ The(timer) > 0
  /\ microtasks = 0
  /\ timer' = Some(The(timer) - 1)
  /\ burst' = [burst EXCEPT !.quiet = @ + 1]
  /\ UNCHANGED <<cfg, layout, idInDom, phase, observed, roPending, sources,
                 microtasks, position, style, innerMaxHeight, lastPlacement,
                 visibility, emitted, passes, pass, prevSide, dropped>>

\* The debounce delay has elapsed: .subscribe(() => this.updatePosition())
TimerFire ==
  /\ timer = Some(0)
  /\ microtasks = 0
  /\ passes < MaxPasses
  /\ timer' = None
  /\ burst' = [burst EXCEPT !.passes = @ + 1]
  /\ UpdatePosition
  /\ UNCHANGED <<cfg, layout, idInDom, phase, observed, roPending, sources,
                 position, visibility, dropped>>

\* queueMicrotask(() => { this.visibility = 'visible'; })
RunMicrotask ==
  /\ microtasks > 0
  /\ microtasks' = microtasks - 1
  /\ visibility' = "visible"
  /\ UNCHANGED <<cfg, layout, idInDom, phase, observed, roPending, sources, timer,
                 position, style, innerMaxHeight, lastPlacement, emitted, passes,
                 pass, prevSide, dropped, burst>>

\* (variant: the pending timer survives the destroy)
TimerKeptAfterDestroy(t) == t

\* takeUntilDestroyed sits after debounceTime: the destroy unsubscribes the
\* debounce operator, which clears its pending timer.
TimerAfterDestroy(t) == None

\* DestroyRef runs its callbacks: takeUntilDestroyed completes the stream and
\* ro.disconnect() drops the observer's targets and pending notifications.
Destroy ==
  /\ phase = "attached"
  /\ phase' = "destroyed"
  /\ sources' = {}
  /\ timer' = TimerAfterDestroy(timer)
  /\ dropped' = (timer # None)
  /\ observed' = {}
  /\ roPending' = FALSE
  /\ UNCHANGED <<cfg, layout, idInDom, microtasks, position, style,
                 innerMaxHeight, lastPlacement, visibility, emitted, passes,
                 pass, prevSide, burst>>

\* The panel's content changes its size.
SizeChange ==
  /\ phase # "created"
  /\ microtasks = 0
  /\ \E h \in {Step, 2 * Step} \ {layout.natH} : layout' = [layout EXCEPT !.natH = h]
  /\ roPending' = (roPending \/ "overlay" \in observed)
  /\ UNCHANGED <<cfg, idInDom, phase, observed, sources, timer, microtasks,
                 position, style, innerMaxHeight, lastPlacement, visibility,
                 emitted, passes, pass, prevSide, dropped, burst>>

\* The element with the configured id is added to or removed from the document.
DomChange ==
  /\ phase = "attached"
  /\ cfg.referenceElementId # "null"
  /\ microtasks = 0
  /\ idInDom' = ~idInDom
  /\ UNCHANGED <<cfg, layout, phase, observed, roPending, sources, timer,
                 microtasks, position, style, innerMaxHeight, lastPlacement,
                 visibility, emitted, passes, pass, prevSide, dropped, burst>>

Next ==
  \/ NgAfterViewInit
  \/ ResizeObserverCallback
  \/ \E src \in {"windowScroll", "windowResize", "scrollParent"} : DomEvent(src)
  \/ Tick
  \/ TimerFire
  \/ RunMicrotask
  \/ Destroy
  \/ SizeChange
  \/ DomChange

Spec == Init /\ [][Next]_vars

\* The lifecycle over every way of naming the anchor.
SpecResolver == InitResolver /\ [][Next]_vars

\* What the platform schedules by itself: a lifecycle hook, an observer
\* notification, the passing of time while a timer runs, a due timer and a
\* queued microtask are run; events, size changes, document changes and the
\* destroy are up to the page.
Fairness ==
  /\ WF_vars(NgAfterViewInit)
  /\ WF_vars(ResizeObserverCallback)
  /\ WF_vars(Tick)
  /\ WF_vars(TimerFire)
  /\ WF_vars(RunMicrotask)

SpecLive == Spec /\ Fairness

\* The placement pass over every layout and geometry input: the first pass of
\* ngAfterViewInit and the pass of the observer's first notification.
NextGeometry ==
  \/ NgAfterViewInit
  \/ ResizeObserverCallback
  \/ RunMicrotask

SpecGeometry == InitGeometry /\ [][NextGeometry]_vars

\* ------------------------------------------------ the observed anchor
\* The anchor changes its size; the observer is notified when it observes the
\* element the passes resolve now.
AnchorSizeChange ==
  /\ phase = "attached"
  /\ microtasks = 0
  /\ GetReferenceElement(cfg, idInDom) # None
  /\ \E h \in AnchorSizes \ {layout.refH} : layout' = [layout EXCEPT !.refH = h]
  /\ roPending' = (roPending \/ GetReferenceElement(cfg, idInDom) \subseteq observed)
  /\ UNCHANGED <<cfg, idInDom, phase, observed, sources, timer, microtasks,
                 position, style, innerMaxHeight, lastPlacement, visibility,
                 emitted, passes, pass, prevSide, dropped, burst>>

\* Inputs that decide what the observer observes.
ObserverCfgs ==
  {[DefaultCfg EXCEPT !.referenceElementId = id, !.debounceMs = ms,
                      !.enableAutoReposition = auto] :
     id \in {"null", "anchor"}, ms \in {0, MaxDebounce}, auto \in BOOLEAN}

InitObserver ==
  /\ cfg \in ObserverCfgs
  /\ layout \in ScrollLayouts
  /\ idInDom \in (IF cfg.referenceElementId = "null" THEN {FALSE} ELSE BOOLEAN)
  /\ InitDirective

\* The lifecycle with an anchor that changes its size.
NextObserver ==
  \/ Next
  \/ AnchorSizeChange

SpecObserver == InitObserver /\ [][NextObserver]_vars

\* ------------------------------------------------- the panel's own reflow
\* A panel with a scrollable inner element: chrome is the height of what lies
\* around the inner element, content the height of what the inner element
\* holds.  The window is tall enough to leave room on both sides of the
\* anchor.
ReflowLayouts ==
  [refTop : {Step * i : i \in 0..MaxScroll}, refLeft : {0}, refW : {Step},
   refH : {Step}, natW : {Step}, natH : {0}, vw : {ViewportW},
   vh : {(MaxScroll + 2) * Step}, chrome : {0, 2 * Step},
   content : {Step, MaxPanel * Step}]

\* inner.style.maxHeight with overflowY = 'auto': the inner element is as high
\* as its content, but not higher than its max-height (tenths of a pixel).
RenderedHeight(l, maxHeight) ==
  l.chrome + (IF maxHeight = None \/ The(maxHeight) >= 10 * l.content
              THEN l.content ELSE The(maxHeight) \div 10)

\* The panel's box has the height its inner max-height gives it.
LayoutSettled == layout.natH = RenderedHeight(layout, innerMaxHeight)

\* The browser lays the panel out again after a max-height write; the observer
\* sees the panel's new height.
BrowserLayout ==
  /\ phase = "attached"
  /\ ~LayoutSettled
  /\ layout' = [layout EXCEPT !.natH = RenderedHeight(layout, innerMaxHeight)]
  /\ roPending' = (roPending \/ "overlay" \in observed)
  /\ UNCHANGED <<cfg, idInDom, phase, observed, sources, timer, microtasks,
                 position, style, innerMaxHeight, lastPlacement, visibility,
                 emitted, passes, pass, prevSide, dropped, burst>>

\* Notifications are delivered after layout.
ReflowResizeObserverCallback ==
  /\ LayoutSettled
  /\ ResizeObserverCallback

\* Inputs of a panel with an inner scrollable element.
ReflowCfgs ==
  {[DefaultCfg EXCEPT !.placement = pl, !.offset = off,
                      !.scrollableSelector = TRUE] :
     pl \in Placements, off \in {0, DefaultOffset}}

InitReflow ==
  /\ cfg \in ReflowCfgs
  /\ \E l \in ReflowLayouts : layout = [l EXCEPT !.natH = RenderedHeight(l, None)]
  /\ idInDom = FALSE
  /\ InitDirective

\* The passes of a panel whose anchor, viewport, inputs and content stay as
\* they are: only the panel's own height moves.
NextReflow ==
  \/ NgAfterViewInit
  \/ BrowserLayout
  \/ ReflowResizeObserverCallback
  \/ RunMicrotask

SpecReflow == InitReflow /\ [][NextReflow]_vars

\* ------------------------------------------------------ the basic directive
\* The directive without the placement, viewportPadding, referenceElement and
\* trackScrollParents inputs and without the placementChange output.
BasicFarEdgeMargin == 4

\* getReferenceElement(overlay): id lookup, else the parent element
BasicGetReferenceElement(c, found) ==
  IF c.referenceElementId # "null"
  THEN (IF found THEN Some("byId") ELSE None)
  ELSE Some("parent")

\* Math.min(top, viewportH - overlayRect.height - 4): the far edge only
BasicClamp(v, viewportSize, overlaySize) ==
  Min(v, viewportSize - overlaySize - BasicFarEdgeMargin)

\* Everything one pass of the basic directive measures and decides.
BasicPlacement(c, l, width) ==
  LET refRect == RefRect(l)
      overlayRect == OverlayRect(l, WidthAtMeasure(c, refRect, width))
      spaceAbove == refRect.top
      spaceBelow == l.vh - refRect.bottom
      openOnTop == AutoOpenOnTop(overlayRect.height, spaceAbove, spaceBelow)
      rawTop == IF openOnTop THEN refRect.top - overlayRect.height - c.offset
                ELSE refRect.bottom + c.offset
      rawLeft == refRect.left
      fullyOut == IsReferenceFullyOut(refRect, l.vw, l.vh)
  IN [refRect |-> refRect, overlayRect |-> overlayRect, vw |-> l.vw, vh |-> l.vh,
      spaceAbove |-> spaceAbove, spaceBelow |-> spaceBelow,
      openOnTop |-> openOnTop, side |-> IF openOnTop THEN "top" ELSE "bottom",
      rawTop |-> rawTop, rawLeft |-> rawLeft, clamped |-> ~fullyOut,
      top |-> IF fullyOut THEN rawTop
              ELSE BasicClamp(rawTop, l.vh, overlayRect.height),
      left |-> IF fullyOut THEN rawLeft
               ELSE BasicClamp(rawLeft, l.vw, overlayRect.width),
      maxSpace |-> IF openOnTop THEN spaceAbove ELSE spaceBelow]

\* updatePosition() of the basic directive: nothing is remembered or emitted.
BasicUpdatePosition ==
  LET reference == BasicGetReferenceElement(cfg, idInDom)
      p == BasicPlacement(cfg, layout, style.width)
  IN IF reference = None
     THEN UNCHANGED <<style, innerMaxHeight, lastPlacement, emitted, microtasks,
                      passes, pass, prevSide>>
     ELSE /\ style' = [top |-> Some(p.top), left |-> Some(p.left),
                       width |-> WidthAtMeasure(cfg, p.refRect, style.width)]
          /\ innerMaxHeight' =
               IF cfg.scrollableSelector
               THEN SetMaxHeight(innerMaxHeight, InnerMaxHeight(p.maxSpace, p.vh))
               ELSE innerMaxHeight
          /\ microtasks' = microtasks + 1
          /\ passes' = passes + 1
          /\ pass' = p @@ [reference |-> The(reference)]
          /\ prevSide' = pass.side
          /\ UNCHANGED <<lastPlacement, emitted>>

\* Inputs of the basic directive that decide the geometry of a pass.
BasicCfgs ==
  {[DefaultCfg EXCEPT !.offset = off, !.matchWidth = mw,
                      !.scrollableSelector = sel] :
     off \in {0, DefaultOffset}, mw \in BOOLEAN, sel \in BOOLEAN}

InitBasic ==
  /\ cfg \in BasicCfgs
  /\ layout \in Layouts
  /\ idInDom = FALSE
  /\ InitDirective

\* ngAfterViewInit() of the basic directive: window scroll and resize only.
BasicNgAfterViewInit ==
  /\ phase = "created"
  /\ phase' = "attached"
  /\ position' = "fixed"
  /\ observed' = {"overlay"} \cup BasicGetReferenceElement(cfg, idInDom)
  /\ roPending' = TRUE
  /\ sources' = IF cfg.enableAutoReposition
                THEN {"windowScroll", "windowResize"} ELSE {}
  /\ BasicUpdatePosition
  /\ UNCHANGED <<cfg, layout, idInDom, timer, visibility, dropped, burst>>

\* new ResizeObserver(() => this.updatePosition()) of the basic directive
BasicResizeObserverCallback ==
  /\ roPending
  /\ observed # {}
  /\ microtasks = 0
  /\ passes < MaxPasses
  /\ roPending' = FALSE
  /\ BasicUpdatePosition
  /\ UNCHANGED <<cfg, layout, idInDom, phase, observed, sources, timer, position,
                 visibility, dropped, burst>>

\* The placement pass of the basic directive over every layout.
NextBasic ==
  \/ BasicNgAfterViewInit
  \/ BasicResizeObserverCallback
  \/ RunMicrotask

SpecBasic == InitBasic /\ [][NextBasic]_vars

\* ================================================================== claims
\* What the latest pass measured and what the panel's style now holds.
Positioned == passes > 0
AppliedTop == The(style.top)
AppliedLeft == The(style.left)
Anchor == pass.refRect
PanelW == pass.overlayRect.width
PanelH == pass.overlayRect.height
Pad == IF cfg.viewportPadding > 0 THEN cfg.viewportPadding ELSE 0
AnchorFullyOut ==
  \/ Anchor.bottom <= 0 \/ Anchor.top >= pass.vh
  \/ Anchor.right <= 0 \/ Anchor.left >= pass.vw
AnchorFullyInside ==
  /\ Anchor.top >= 0 /\ Anchor.bottom <= pass.vh
  /\ Anchor.left >= 0 /\ Anchor.right <= pass.vw
RoomBelow == pass.vh - Anchor.bottom
RoomAbove == Anchor.top
PanelFitsH == PanelH <= pass.vh - 2 * Pad
PanelFitsW == PanelW <= pass.vw - 2 * Pad
InRange(v, lo, hi) == lo <= v /\ v <= hi

\* C1 as stated: whenever the anchor overlaps the viewport the pass is clamped
\* and top is in [padding, viewportHeight - panelHeight - padding], left in
\* [padding, viewportWidth - panelWidth - padding].
C1_InViewportAlways ==
  (Positioned /\ ~AnchorFullyOut) =>
    /\ pass.clamped
    /\ InRange(AppliedTop, Pad, pass.vh - PanelH - Pad)
    /\ InRange(AppliedLeft, Pad, pass.vw - PanelW - Pad)

\* C1 (amended): whenever the anchor overlaps the viewport the pass is clamped,
\* top >= padding and left >= padding; top <= viewportHeight - panelHeight -
\* padding holds when the panel height fits the padded viewport, and likewise
\* left when the panel width fits; on an axis the panel does not fit, the
\* coordinate is padding.
C1_InViewportWhenFits ==
  (Positioned /\ ~AnchorFullyOut) =>
    /\ pass.clamped
    /\ AppliedTop >= Pad
    /\ AppliedLeft >= Pad
    /\ IF PanelFitsH THEN AppliedTop <= pass.vh - PanelH - Pad ELSE AppliedTop = Pad
    /\ IF PanelFitsW THEN AppliedLeft <= pass.vw - PanelW - Pad ELSE AppliedLeft = Pad

\* C1 witness: a clamped pass moved a fitting panel back inside on both axes.
C1_Witness ==
  /\ Positioned /\ ~AnchorFullyOut /\ PanelFitsH /\ PanelFitsW
  /\ AppliedTop # pass.rawTop /\ AppliedLeft # pass.rawLeft
  /\ cfg.placement = "left"

\* C2: whenever the anchor is fully out of the viewport the pass does not clamp:
\* top and left are the raw values relative to the anchor for the resolved side.
C2_FollowWhenFullyOut ==
  (Positioned /\ AnchorFullyOut) =>
    /\ ~pass.clamped
    /\ pass.side = "bottom" =>
         AppliedTop = Anchor.bottom + cfg.offset /\ AppliedLeft = Anchor.left
    /\ pass.side = "top" =>
         AppliedTop = Anchor.top - PanelH - cfg.offset /\ AppliedLeft = Anchor.left
    /\ pass.side = "left" =>
         AppliedTop = Anchor.top /\ AppliedLeft = Anchor.left - PanelW - cfg.offset
    /\ pass.side = "right" =>
         AppliedTop = Anchor.top /\ AppliedLeft = Anchor.right + cfg.offset

\* C2 witness: the anchor is below the viewport and the panel, placed under it,
\* is off-screen as well.
C2_Witness ==
  /\ Positioned /\ Anchor.top >= pass.vh /\ pass.side = "bottom"
  /\ ~pass.clamped
  /\ AppliedTop > pass.vh /\ AppliedTop = Anchor.bottom + cfg.offset

\* C3 as stated: auto placement, anchor fully inside the viewport, room below >=
\* panel height: side is bottom and top = anchor.bottom + offset.
C3_BottomRawAlways ==
  (Positioned /\ cfg.placement = "auto" /\ AnchorFullyInside /\ RoomBelow >= PanelH) =>
    pass.side = "bottom" /\ AppliedTop = Anchor.bottom + cfg.offset

\* C3 (amended): under the same conditions side is bottom, and top =
\* anchor.bottom + offset when padding <= anchor.bottom + offset <=
\* viewportHeight - panelHeight - padding; otherwise top is that value clamped
\* into the range, the lower bound winning.
C3_BottomWhenRoom ==
  (Positioned /\ cfg.placement = "auto" /\ AnchorFullyInside /\ RoomBelow >= PanelH) =>
    /\ pass.side = "bottom"
    /\ IF InRange(Anchor.bottom + cfg.offset, Pad, pass.vh - PanelH - Pad)
       THEN AppliedTop = Anchor.bottom + cfg.offset
       ELSE AppliedTop =
              Max(Min(Anchor.bottom + cfg.offset, pass.vh - PanelH - Pad), Pad)

\* C3 witness: room below for panel, gap and padding; the panel sits right
\* under the anchor.
C3_Witness ==
  /\ Positioned /\ cfg.placement = "auto" /\ AnchorFullyInside
  /\ RoomBelow >= PanelH + cfg.offset + Pad /\ cfg.offset > 0 /\ Pad > 0
  /\ pass.side = "bottom" /\ AppliedTop = Anchor.bottom + cfg.offset

\* C4 as stated: auto placement, panelHeight > room below and room above >=
\* panelHeight: side is top and top = anchor.top - panelHeight - offset.
C4_TopRawAlways ==
  (Positioned /\ cfg.placement = "auto" /\ PanelH > RoomBelow /\ RoomAbove >= PanelH) =>
    pass.side = "top" /\ AppliedTop = Anchor.top - PanelH - cfg.offset

\* C4 (amended): under the same conditions side is top, and top = anchor.top -
\* panelHeight - offset when the anchor is fully out of the viewport or
\* padding <= anchor.top - panelHeight - offset <= viewportHeight - panelHeight
\* - padding; otherwise top is that value clamped into the range.
C4_TopWhenRoom ==
  (Positioned /\ cfg.placement = "auto" /\ PanelH > RoomBelow /\ RoomAbove >= PanelH) =>
    /\ pass.side = "top"
    /\ IF \/ AnchorFullyOut
          \/ InRange(Anchor.top - PanelH - cfg.offset, Pad, pass.vh - PanelH - Pad)
       THEN AppliedTop = Anchor.top - PanelH - cfg.offset
       ELSE AppliedTop =
              Max(Min(Anchor.top - PanelH - cfg.offset, pass.vh - PanelH - Pad), Pad)

\* C4 witness: a visible anchor near the bottom edge, the panel right above it.
C4_Witness ==
  /\ Positioned /\ cfg.placement = "auto" /\ ~AnchorFullyOut
  /\ PanelH > RoomBelow /\ RoomAbove >= PanelH + cfg.offset + Pad
  /\ cfg.offset > 0 /\ Pad > 0
  /\ pass.side = "top" /\ AppliedTop = Anchor.top - PanelH - cfg.offset

\* C5: placement top always resolves side top and placement bottom side bottom,
\* whatever the room; the emitted value and the space behind the inner
\* max-height (room above for top, room below for bottom) follow the forced
\* side: whenever that space leaves a max-height to apply, the applied one is
\* computed from it.
C5_ForcedVertical ==
  (Positioned /\ cfg.placement \in {"top", "bottom"}) =>
    /\ pass.side = cfg.placement
    /\ lastPlacement = cfg.placement
    /\ emitted = <<cfg.placement>>
    /\ pass.maxSpace = (IF cfg.placement = "top" THEN RoomAbove ELSE RoomBelow)
    /\ (cfg.scrollableSelector /\ pass.maxSpace >= InnerSafetyMargin) =>
         innerMaxHeight =
           Some(Min(10 * ((IF cfg.placement = "top" THEN RoomAbove ELSE RoomBelow)
                          - InnerSafetyMargin),
                    ViewportCapTenths * pass.vh))

\* C5 witness: top is forced although the panel fits below and not above.
C5_Witness ==
  /\ Positioned /\ cfg.placement = "top" /\ cfg.scrollableSelector
  /\ RoomBelow >= PanelH /\ RoomAbove < PanelH
  /\ pass.side = "top" /\ emitted = <<"top">> /\ pass.maxSpace = RoomAbove

\* C6 as stated: placement left or right resolves the forced side and
\* top = anchor.top for every input.
C6_HorizontalRawTopAlways ==
  (Positioned /\ cfg.placement \in {"left", "right"}) =>
    pass.side = cfg.placement /\ AppliedTop = Anchor.top

\* C6 (amended): placement left or right resolves the forced side; top =
\* anchor.top when the anchor is fully out of the viewport or padding <=
\* anchor.top <= viewportHeight - panelHeight - padding; otherwise top is
\* anchor.top clamped into that range, the lower bound winning.
C6_HorizontalTop ==
  (Positioned /\ cfg.placement \in {"left", "right"}) =>
    /\ pass.side = cfg.placement
    /\ IF AnchorFullyOut \/ InRange(Anchor.top, Pad, pass.vh - PanelH - Pad)
       THEN AppliedTop = Anchor.top
       ELSE AppliedTop = Max(Min(Anchor.top, pass.vh - PanelH - Pad), Pad)

\* C6 witness: a right placement beside a visible anchor, top aligned with it.
C6_Witness ==
  /\ Positioned /\ cfg.placement = "right" /\ ~AnchorFullyOut
  /\ Anchor.top > Pad /\ Pad > 0
  /\ pass.side = "right" /\ AppliedTop = Anchor.top
  /\ AppliedLeft = Anchor.right + cfg.offset

C9_NothingAfterDestroy ==
  [][phase = "destroyed" =>
       UNCHANGED <<style, innerMaxHeight, lastPlacement, emitted, passes,
                   visibility>>]_vars

\* C10: a debounced recomputation that is pending when the panel is destroyed
\* is discarded: the timer is gone and no pass runs when or after its delay
\* expires.
C10_PendingDebounceDiscarded ==
  /\ [](phase = "destroyed" => timer = None)
  /\ [][dropped => /\ passes' = passes /\ style' = style
                   /\ emitted' = emitted /\ pass' = pass]_vars

\* C10 witness: the destroy came while the debounce delay was running, and
\* events keep arriving afterwards.
C10_Witness ==
  /\ phase = "destroyed" /\ dropped /\ cfg.debounceMs > 0
  /\ Positioned /\ layout.refTop # pass.refRect.top

\* ------------------------------------------------------------ claims C11-C20
\* The inputs name an anchor by id only and no element has that id.
AnchorUnresolved ==
  cfg.referenceElement = "null" /\ cfg.referenceElementId # "null" /\ ~idInDom
\* A step in which updatePosition() is called: by ngAfterViewInit, by the
\* ResizeObserver, or by the debounced stream.
PassStep ==
  \/ phase = "created" /\ phase' = "attached"
  \/ phase' = phase /\ roPending /\ ~roPending'
  \/ phase' = phase /\ timer = Some(0) /\ timer' = None

\* C11: a pass that starts while the anchor cannot be resolved is a no-op: top,
\* left, width, inner max-height, the remembered last side and the visibility
\* are unchanged, nothing is emitted and no reveal is queued; the panel keeps
\* its last applied position.
C11_UnresolvedPassIsNoOp ==
  [][(PassStep /\ AnchorUnresolved) =>
       UNCHANGED <<style, innerMaxHeight, lastPlacement, visibility, emitted,
                   microtasks, passes, pass>>]_vars

\* C11 witness: after a successful pass the anchor left the document and the
\* panel changed its height; the observer's notification has been delivered
\* (nothing is pending) and the panel still has the position of the old pass.
C11_Witness ==
  /\ phase = "attached" /\ AnchorUnresolved /\ Positioned
  /\ ~roPending /\ layout.natH # pass.overlayRect.height
  /\ style.top = Some(pass.top) /\ style.left = Some(pass.left)

\* A step in which the debounced stream calls updatePosition().
StreamPassStep == phase' = phase /\ timer = Some(0) /\ timer' = None

\* C12: window scroll, window resize and scroll-parent scroll events share one
\* debounce timer: while a burst is going on the stream runs no pass, and the
\* burst, whatever its sources, causes exactly one pass, which runs debounceMs
\* after the last event of the burst.
C12_OnePassPerBurst ==
  /\ [](timer # None => burst.events /\ burst.passes = 0)
  /\ [](burst.passes <= 1)
  /\ [][StreamPassStep =>
         burst.quiet = cfg.debounceMs /\ burst.passes = 0 /\ burst'.passes = 1]_vars

\* C12 witness: a burst of at least two events with less than debounceMs
\* between them has ended in one pass, which read the anchor where the last
\* event left it.
C12_Witness ==
  /\ phase = "attached" /\ cfg.debounceMs > 0 /\ timer = None
  /\ burst.merged /\ burst.passes = 1 /\ burst.quiet = cfg.debounceMs
  /\ Positioned /\ pass.refRect.top = layout.refTop /\ prevSide # pass.side

\* C13: the panel is hidden from attachment until the first successful pass
\* has applied top and left; it becomes visible only in the deferred microtask
\* a successful pass has queued, never in the step of the pass itself and
\* never before a pass has succeeded.
C13_RevealOnlyByMicrotask ==
  /\ [](~Positioned => visibility = "hidden")
  /\ [](visibility = "visible" => style.top # None /\ style.left # None)
  /\ [][passes' # passes => visibility' = visibility]_vars
  /\ [][visibility' # visibility =>
         /\ visibility' = "visible" /\ Positioned
         /\ microtasks > 0 /\ microtasks' = microtasks - 1
         /\ UNCHANGED <<style, passes, pass>>]_vars

\* C13 witness: the first pass has run and its microtask has revealed the
\* panel.
C13_Witness ==
  /\ phase = "attached" /\ passes = 1 /\ microtasks = 0
  /\ visibility = "visible" /\ style.top = Some(pass.top)

\* getReferenceElement would find the anchor now.
Resolvable == GetReferenceElement(cfg, idInDom) # None

\* C14: after attachment a pass runs once panel and anchor are both
\* resolvable: whenever the attached panel has not been placed and its anchor
\* is resolvable, then, unless the panel is destroyed or the anchor goes away
\* again, a pass eventually runs and the panel is eventually revealed.
C14_PassOnceResolvable ==
  [](phase = "attached" /\ ~Positioned /\ Resolvable =>
       <>(\/ Positioned /\ visibility = "visible"
          \/ phase = "destroyed"
          \/ ~Resolvable))

\* The pass of this step measured what the pass before it measured.
SameInputs ==
  /\ pass'.refRect = pass.refRect /\ pass'.overlayRect = pass.overlayRect
  /\ pass'.vw = pass.vw /\ pass'.vh = pass.vh /\ cfg' = cfg

AnchorByPriority ==
  IF cfg.referenceElement # "null" THEN "direct"
  ELSE IF cfg.referenceElementId # "null" THEN "byId"
  ELSE "parent"

\* C16: the anchor is resolved with the priority direct handle > id lookup >
\* parent fallback: with both referenceElement and referenceElementId given
\* the direct handle is used (whether or not the id matches), with only the id
\* given the element with that id, with neither the panel's parent element;
\* this holds for the element observed at attachment and for every pass.
C16_ResolverPriority ==
  /\ [](Positioned => pass.reference = AnchorByPriority)
  /\ [](phase = "attached" => observed \subseteq {"overlay", AnchorByPriority})
  /\ [][(PassStep /\ cfg.referenceElement # "null") =>
         passes' = passes + 1 /\ pass'.reference = "direct"]_vars

\* C16 witness: both inputs are given, no element has the id, and the direct
\* handle has been observed and used by two passes.
C16_Witness ==
  /\ cfg.referenceElement # "null" /\ cfg.referenceElementId # "null"
  /\ ~idInDom /\ passes = 2 /\ ~roPending /\ phase = "attached"
  /\ observed = {"overlay", "direct"} /\ pass.reference = "direct"

\* C17: with enableAutoReposition false nothing is subscribed, so no window
\* scroll, window resize or scroll-parent scroll event ever starts the timer
\* or triggers a pass (only the initial pass and size changes do); the scroll
\* parents are listened to only when enableAutoReposition and
\* trackScrollParents are both true.
C17_NoRepositionWhenDisabled ==
  /\ ~cfg.enableAutoReposition =>
        sources = {} /\ timer = None /\ ~burst.events /\ burst.passes = 0
  /\ "scrollParent" \in sources =>
        cfg.enableAutoReposition /\ cfg.trackScrollParents

\* C17 witness: auto-repositioning is off; the initial pass and the observer's
\* pass have run, nothing is pending, and the anchor has since been scrolled
\* away from where the latest pass measured it.
C17_Witness ==
  /\ ~cfg.enableAutoReposition /\ phase = "attached" /\ passes = 2
  /\ ~roPending /\ microtasks = 0 /\ timer = None
  /\ layout.refTop # pass.refRect.top /\ layout.natH = pass.overlayRect.height

\* C18: in the basic directive, whenever the reference is fully or partially
\* visible the popup does not overflow the viewport on any side: top >= 0,
\* left >= 0, top + panelHeight <= viewportHeight and left + panelWidth <=
\* viewportWidth.
C18_BasicNoOverflow ==
  (Positioned /\ ~AnchorFullyOut) =>
    /\ AppliedTop >= 0 /\ AppliedLeft >= 0
    /\ AppliedTop + PanelH <= pass.vh
    /\ AppliedLeft + PanelW <= pass.vw

\* The space the claim names for the side of the latest pass.
SpaceOnSide ==
  IF pass.side = "top" THEN RoomAbove
  ELSE IF pass.side = "bottom" THEN RoomBelow
  ELSE pass.vh - 2 * Pad

\* C19: with scrollableSelector resolving to an element inside the panel,
\* after every successful pass that element's max-height is min(maxSpace - 10,
\* 0.9 * viewportHeight), maxSpace being the room above for side top, the room
\* below for side bottom and viewportHeight - 2 * padding for left and right;
\* so it exceeds neither the space on the chosen side nor 90% of the
\* viewport height (the max-height is kept in tenths of a pixel).
C19_InnerMaxHeightSet ==
  (Positioned /\ cfg.scrollableSelector) =>
    /\ innerMaxHeight =
         Some(Min(10 * (SpaceOnSide - InnerSafetyMargin), ViewportCapTenths * pass.vh))
    /\ The(innerMaxHeight) <= 10 * SpaceOnSide
    /\ The(innerMaxHeight) <= ViewportCapTenths * pass.vh

\* C20: with matchWidth true, in every successful pass the panel's width is
\* set to the anchor's width before the panel is measured: the style holds
\* the anchor's width, and the width and height used for the side decision and
\* for clamping are those of the width-matched (possibly reflowed) panel.
C20_WidthMatchedBeforeMeasure ==
  (Positioned /\ cfg.matchWidth) =>
    /\ style.width = Some(Anchor.width)
    /\ pass.overlayRect = OverlayRect(layout, Some(Anchor.width))
    /\ cfg.placement = "auto" =>
         (pass.side = "top" <=> (PanelH > RoomBelow /\ RoomAbove >= PanelH))
    /\ (pass.clamped /\ PanelFitsH) => AppliedTop + PanelH <= pass.vh - Pad
    /\ (pass.clamped /\ PanelFitsW) => AppliedLeft + PanelW <= pass.vw - Pad

\* C20 witness: the anchor is narrower than the panel's natural width; the
\* panel was measured with the anchor's width and the greater height that
\* comes with it, and that height pushed it up from the bottom edge.
C20_Witness ==
  /\ Positioned /\ cfg.matchWidth /\ layout.natW > Anchor.width
  /\ PanelW = Anchor.width /\ PanelH = layout.natH + Step
  /\ pass.clamped /\ AppliedTop = pass.vh - PanelH - Pad
  /\ AppliedTop < pass.rawTop

\* ------------------------------------------------------------ claims C21-C29
\* C21: in auto placement the side is top if and only if panelHeight >
\* spaceBelow and spaceAbove >= panelHeight (spaceAbove = anchor.top,
\* spaceBelow = viewportHeight - anchor.bottom); in every other case,
\* including a panel that fits neither above nor below, the side is bottom;
\* auto never resolves to left or right.
C21_AutoSide ==
  (Positioned /\ cfg.placement = "auto") =>
    /\ pass.side \in {"top", "bottom"}
    /\ pass.side = "top" <=>
         (PanelH > pass.vh - Anchor.bottom /\ Anchor.top >= PanelH)
    /\ (PanelH > pass.vh - Anchor.bottom /\ PanelH > Anchor.top) =>
         pass.side = "bottom"

\* C21 witness: the panel fits neither below nor above a visible anchor and
\* auto placement has opened it below.
C21_Witness ==
  /\ Positioned /\ cfg.placement = "auto" /\ ~AnchorFullyOut
  /\ PanelH > RoomBelow /\ PanelH > RoomAbove /\ RoomAbove > RoomBelow
  /\ pass.side = "bottom" /\ emitted = <<"bottom">>

\* C22: in clamped mode, on an axis where the panel is larger than the
\* viewport minus twice the padding the lower bound wins: top == padding when
\* panelHeight > viewportHeight - 2 * padding, left == padding when
\* panelWidth > viewportWidth - 2 * padding.
C22_LowerBoundWins ==
  (Positioned /\ pass.clamped) =>
    /\ PanelH > pass.vh - 2 * Pad => AppliedTop = Pad
    /\ PanelW > pass.vw - 2 * Pad => AppliedLeft = Pad

\* C22 witness: a panel as large as the viewport, with a positive padding, is
\* pinned to the padded top-left corner and overflows the far edges.
C22_Witness ==
  /\ Positioned /\ pass.clamped /\ Pad > 0
  /\ PanelH > pass.vh - 2 * Pad /\ PanelW > pass.vw - 2 * Pad
  /\ AppliedTop = Pad /\ AppliedLeft = Pad
  /\ AppliedTop + PanelH > pass.vh /\ AppliedLeft + PanelW > pass.vw

\* The anchor has at least one pixel inside the viewport.
AnchorHasPixelInside ==
  /\ Anchor.bottom >= 1 /\ Anchor.top <= pass.vh - 1
  /\ Anchor.right >= 1 /\ Anchor.left <= pass.vw - 1

\* C23: the anchor is classified fully out (the pass does not clamp) exactly
\* when anchor.bottom <= 0 or anchor.top >= viewportHeight or anchor.right <= 0
\* or anchor.left >= viewportWidth, whatever the panel, offset, padding and
\* placement are; an anchor with at least one pixel inside the viewport is
\* never fully out.
C23_FullyOutClassification ==
  Positioned =>
    /\ ~pass.clamped <=>
         (\/ pass.refRect.top + pass.refRect.height <= 0
          \/ pass.refRect.top >= pass.vh
          \/ pass.refRect.left + pass.refRect.width <= 0
          \/ pass.refRect.left >= pass.vw)
    /\ AnchorHasPixelInside => pass.clamped

\* C23 witness: the anchor's right edge lies exactly on the viewport's left
\* edge, the anchor is otherwise level with the viewport, and the pass, with a
\* left placement and a panel as wide as the viewport, did not clamp.
C23_Witness ==
  /\ Positioned /\ Anchor.right = 0 /\ Anchor.top > 0 /\ Anchor.bottom < pass.vh
  /\ cfg.placement = "left" /\ PanelW = pass.vw /\ ~pass.clamped
  /\ AppliedLeft = pass.rawLeft

\* The pass the same inputs give with viewportPadding = 0.
ZeroPaddingPass ==
  Placement([cfg EXCEPT !.viewportPadding = 0], layout, style.width)

\* C24: a negative viewportPadding behaves exactly like 0: the applied top and
\* left, and the inner max-height of a left or right placement, equal those
\* the same inputs give with viewportPadding = 0.
C24_NegativePaddingIsZero ==
  (Positioned /\ cfg.viewportPadding < 0) =>
    /\ AppliedTop = ZeroPaddingPass.top
    /\ AppliedLeft = ZeroPaddingPass.left
    /\ (cfg.scrollableSelector /\ pass.side \in {"left", "right"}) =>
         /\ pass.maxSpace = pass.vh
         /\ innerMaxHeight =
              Some(InnerMaxHeight(ZeroPaddingPass.maxSpace, pass.vh))

\* C24 witness: with a negative padding a right placement was clamped against
\* the viewport edges themselves and the inner max-height was derived from the
\* whole viewport height.
C24_Witness ==
  /\ Positioned /\ cfg.viewportPadding < 0 /\ cfg.placement = "right"
  /\ cfg.scrollableSelector /\ pass.clamped
  /\ AppliedLeft = pass.vw - PanelW /\ AppliedLeft < pass.rawLeft
  /\ AppliedTop = 0 /\ pass.rawTop < 0
  /\ innerMaxHeight = Some(Min(10 * (pass.vh - InnerSafetyMargin),
                               ViewportCapTenths * pass.vh))

\* C28: with referenceElementId set to an id that matches no element and no
\* direct referenceElement, the resolver yields no anchor and never falls back
\* to the panel's parent element: the parent is neither observed nor used by a
\* pass, a pass that runs meanwhile writes no position, emits nothing and
\* queues no reveal, and as long as no pass has succeeded the panel is hidden
\* and has no position.
C28_NoParentFallback ==
  /\ []((cfg.referenceElement = "null" /\ cfg.referenceElementId # "null") =>
          /\ "parent" \notin observed
          /\ Positioned => pass.reference = "byId"
          /\ ~Positioned =>
               /\ style.top = None /\ style.left = None /\ emitted = << >>
               /\ microtasks = 0 /\ visibility = "hidden")
  /\ [][(PassStep /\ AnchorUnresolved) =>
          /\ passes' = passes /\ style' = style /\ emitted' = emitted
          /\ microtasks' = microtasks]_vars

\* C28 witness: no element has the configured id; the first pass, the
\* observer's pass and a pass of the scroll stream have all run, and the panel
\* is still unplaced and hidden.
C28_Witness ==
  /\ phase = "attached" /\ AnchorUnresolved /\ ~Positioned
  /\ ~roPending /\ burst.passes = 1 /\ timer = None
  /\ observed = {"overlay"} /\ style.top = None /\ visibility = "hidden"

\* C29: the remembered last side starts empty, so the first successful pass
\* emits exactly one placementChange carrying the resolved side, also when the
\* side is forced by the configuration; after any successful pass the
\* remembered last side is the side of the most recent successful pass.
C29_FirstPassEmits ==
  /\ ~Positioned => lastPlacement = "null" /\ emitted = << >>
  /\ passes = 1 => emitted = <<pass.side>>
  /\ Positioned => lastPlacement = pass.side /\ emitted[1] \in Sides
  /\ (Positioned /\ cfg.placement # "auto") => emitted = <<cfg.placement>>

\* C29 witness: the first pass, with the side forced to right, has emitted
\* right once and remembers it.
C29_Witness ==
  /\ passes = 1 /\ cfg.placement = "right" /\ pass.side = "right"
  /\ emitted = <<"right">> /\ lastPlacement = "right"

\* C25: any size change of the panel or of the anchor the passes currently
\* resolve (also an anchor that became resolvable after attachment) triggers
\* a pass at once: the observer has a notification to deliver right after the
\* change, whatever debounceMs and enableAutoReposition are, and the debounce
\* timer is not involved.
C25_SizeChangeTriggersPass ==
  [][(/\ phase = "attached" /\ phase' = "attached" /\ Resolvable
      /\ \/ layout'.refH # layout.refH
         \/ layout'.natH # layout.natH) =>
       roPending' /\ timer' = timer]_vars

\* C26: with debounceMs = 0 there is no debounce: every window scroll, window
\* resize or scroll-parent scroll event has its own pass, so n events make n
\* passes: for a panel that has been placed, a pass of the stream never
\* answers events that were merged into one timer.
C26_NoDebounceAtZero ==
  (cfg.debounceMs = 0 /\ Positioned /\ burst.passes >= 1) => ~burst.merged

\* C27: with scrollableSelector set and anchor, viewport, inputs and content
\* fixed, the chain of passes the panel's own height changes re-trigger
\* reaches a fixed point: the chain never returns to a side it has left.  (A
\* pass is a function of the panel's height, and that height a function of the
\* max-height the pass before has written; a chain that is back on the side of
\* two passes ago with that side's max-height in place is back in the state
\* it was in then, and repeats from there for ever.)
C27_ReachesFixedPoint ==
  ~(/\ cfg.scrollableSelector /\ Len(emitted) >= 3
    /\ emitted[Len(emitted)] = emitted[Len(emitted) - 2]
    /\ innerMaxHeight = Some(InnerMaxHeight(pass.maxSpace, pass.vh)))

====
